---- MODULE Spec2Model ----
(***************************************************************************)
(* Verification model of the re:memo frontend: the useChat hook and its    *)
(* ChatInterface caller, JournalPage with useEntry / useAutoSave, the      *)
(* ChatPage reflection request, the api client, the query retry policy    *)
(* and the RateLimiter.                                                    *)
(***************************************************************************)
EXTENDS Integers, Sequences, FiniteSets, TLC

VARIABLES
    page,           \* the component that is mounted
    \* ---- useChat (hooks/useApi) + chat backend ----
    sessionId,      \* the sessionId argument of the current render
    messages,       \* useState([]) : the list shown
    loading,        \* useState(false)
    error,          \* useState(null)
    isTyping,       \* useState(false)
    tasks,          \* async invocations of sendMessage / loadChatHistory, by call number
    serverLog,      \* chat backend: per session message log
    \* ---- JournalPage + useEntry + useAutoSave + journal backend ----
    jid,            \* useParams().id
    entry,          \* useEntry: useState(null)
    jLoading,       \* useEntry: loading
    jError,         \* useEntry: error
    isCompleting,   \* useAsyncOperation().isLoading of executeComplete
    isSaving,       \* useAutoSave: isSaving
    lastSaved,      \* useAutoSave: lastSaved
    autoTimer,      \* useAutoSave: the pending setTimeout and the closure it will run
    editorOn,       \* the MDXEditor is mounted (editorRef.current is set)
    editorDoc,      \* what editorRef.current.getMarkdown() returns
    docOrigin,      \* the id of the entry the editor's text was loaded from or edited as
    jtasks,         \* journal requests in the order they were sent
    store,          \* journal backend: the entries
    \* ---- ChatPage (reflection search) ----
    prompt,         \* useState('')
    cards,          \* useState([])
    reflection,     \* useState('')
    rLoading,       \* useAsyncOperation().isLoading
    rError,         \* useAsyncOperation().error
    lastRun,        \* useThrottle: lastRun.current
    reflCalls,      \* reflectionRateLimiter.calls
    now,            \* Date.now(), ms since ChatPage mounted
    fetchReq,       \* the fetch('/ai/get-reflection') in flight
    \* ---- api client (services/api.js) and the AI backend ----
    envTimeout,     \* import.meta.env.VITE_API_TIMEOUT
    apiReqs,        \* requests made through apiClient, in the order of the calls
    facts,          \* AI backend: the fact store, with each fact's similarity to the query
    \* ---- queryClient (App.jsx) ----
    queries,        \* per query key: its fetch, the attempts made and the failures seen
    \* ---- RateLimiter (utils/security.js) ----
    limiter,        \* the constructor's maxCalls and windowMs
    limCalls,       \* this.calls
    limNow,         \* Date.now()
    limLog,         \* every canMakeCall() invocation so far: its time and its answer
    \* ---- sentence lists: RightSidebar and the reflection block of ChatPage ----
    suggestion,     \* RightSidebar: suggestion.prompt, <<>> while suggestion is null
    processedSuggestion, \* RightSidebar: the memoized list of sentences
    reflText,       \* ChatPage: the reflection shown, as characters
    reflItems,      \* ChatPage: the list items rendered from it
    \* ---- validateJournalEntry (utils/security.js) ----
    vEntry,         \* the argument: title and content
    vResult,        \* the value returned for it, NotValidated before the call
    \* ---- Layout with JournalEditor (components/Layout.jsx, JournalEditor.jsx) ----
    selectedEntry,  \* Layout: the entry given to JournalEditor
    isEditing,      \* Layout: JournalEditor is mounted
    entries,        \* useEntries: the ids of the list
    edData,         \* JournalEditor: title and content
    kbSelected,     \* selectedEntry as the keydown handler's closure holds it
    edSaving,       \* JournalEditor: isSaving
    edCompleting,   \* JournalEditor: isCompleting
    edTimer,        \* the timeout of useAutoSave in JournalEditor
    ltasks,         \* requests of useEntries, in the order of the calls
    lstore,         \* journal backend: the entries created
    onCompleteCalls, \* every call of onComplete: how the save before it ended
    \* ---- useEntries (hooks/useApi) on its own, from the mount of its component ----
    hookEntries,    \* useState(null): entries
    hookLoading,    \* useState(false): loading
    hookError,      \* useState(null): error
    hookFetch,      \* the fetchEntries() call of the mount effect
    hookCreates,    \* createEntry calls, in the order they were made
    hookStore,      \* journal backend: the ids of the entries, newest first
    hookRaised      \* an exception left the hook's code (in a call or in a render)

chatVars == <<sessionId, messages, loading, error, isTyping, tasks, serverLog>>

journalVars == <<jid, entry, jLoading, jError, isCompleting, isSaving, lastSaved,
                 autoTimer, editorOn, editorDoc, docOrigin, jtasks, store>>

reflectVars == <<prompt, cards, reflection, rLoading, rError, lastRun, reflCalls, now,
                 fetchReq>>

apiVars == <<envTimeout, apiReqs, facts>>

queryVars == <<queries>>

limVars == <<limiter, limCalls, limNow, limLog>>

splitVars == <<suggestion, processedSuggestion, reflText, reflItems>>

validateVars == <<vEntry, vResult>>

layoutVars == <<selectedEntry, isEditing, entries, edData, kbSelected, edSaving, edCompleting,
                edTimer, ltasks, lstore, onCompleteCalls>>

hookVars == <<hookEntries, hookLoading, hookError, hookFetch, hookCreates, hookStore,
              hookRaised>>

vars == <<page, chatVars, journalVars, reflectVars, apiVars, queryVars, limVars, splitVars,
          validateVars, layoutVars, hookVars>>

\* one component is mounted: its operations change no other component's state
Pages == {"ChatInterface", "JournalPage", "ChatPage", "ReviewSidebar", "QueryClient",
          "RateLimiter", "RightSidebar", "ReflectionList", "validateJournalEntry", "Layout", "useEntries"}

ChatOnly ==
    /\ page = "ChatInterface"
    /\ UNCHANGED <<page, journalVars, reflectVars, apiVars, queryVars,
                   limVars, splitVars, validateVars, layoutVars, hookVars>>

JournalOnly ==
    /\ page = "JournalPage"
    /\ UNCHANGED <<page, chatVars, reflectVars, apiVars, queryVars,
                   limVars, splitVars, validateVars, layoutVars, hookVars>>

ReflectOnly ==
    /\ page = "ChatPage"
    /\ UNCHANGED <<page, chatVars, journalVars, apiVars, queryVars,
                   limVars, splitVars, validateVars, layoutVars, hookVars>>

QueryOnly ==
    /\ page = "QueryClient"
    /\ UNCHANGED <<page, chatVars, journalVars, reflectVars, apiVars,
                   limVars, splitVars, validateVars, layoutVars, hookVars>>

LimiterOnly ==
    /\ page = "RateLimiter"
    /\ UNCHANGED <<page, chatVars, journalVars, reflectVars, apiVars,
                   queryVars, splitVars, validateVars, layoutVars, hookVars>>

SidebarOnly ==
    /\ page = "RightSidebar"
    /\ UNCHANGED <<page, chatVars, journalVars, reflectVars, apiVars,
                   queryVars, limVars, validateVars, layoutVars, hookVars>>

ListOnly ==
    /\ page = "ReflectionList"
    /\ UNCHANGED <<page, chatVars, journalVars, reflectVars, apiVars,
                   queryVars, limVars, validateVars, layoutVars, hookVars>>

ValidateOnly ==
    /\ page = "validateJournalEntry"
    /\ UNCHANGED <<page, chatVars, journalVars, reflectVars, apiVars,
                   queryVars, limVars, splitVars, layoutVars, hookVars>>

LayoutOnly ==
    /\ page = "Layout"
    /\ UNCHANGED <<page, chatVars, journalVars, reflectVars, apiVars,
                   queryVars, limVars, splitVars, validateVars, hookVars>>

HookOnly ==
    /\ page = "useEntries"
    /\ UNCHANGED <<page, chatVars, journalVars, reflectVars, apiVars,
                   queryVars, limVars, splitVars, validateVars, layoutVars>>

ApiOnly ==
    /\ page = "ReviewSidebar"
    /\ UNCHANGED <<page, chatVars, journalVars, reflectVars, queryVars,
                   limVars, splitVars, validateVars, layoutVars, hookVars>>

\* JavaScript null / undefined for string-valued state
Null == "null"

Truthy(s) == s # Null /\ s # ""

\* a || b on string-or-null values
Or(a, b) == IF Truthy(a) THEN a ELSE b

\* ------------------------------------------------------------------------
\* Bounds
\* ------------------------------------------------------------------------
MaxCalls == 3

MaxReq == 4

\* seconds of clock after ChatPage mounts
MaxClock == 6

MaxApiReq == 2

\* canMakeCall() invocations on one limiter
MaxInvocations == 12

\* clock steps of 20 s on the limiter's clock
MaxLimClock == 4

\* requests of one editing session in Layout
MaxSaves == 2

\* createEntry calls made through one useEntries instance
MaxCreates == 3

\* characters of a generated prompt or reflection
MaxText == 6

\* ------------------------------------------------------------------------
\* api client (services/api.js)
\* ------------------------------------------------------------------------

\* Errors as axios raises them: the server's error body (response.data.error),
\* the error's own message, the HTTP status (0: no response).
RawErrors ==
    { [respError |-> Null, message |-> "Network Error", status |-> 0],
      [respError |-> "Chat failed", message |-> "Request failed with status code 500", status |-> 500],
      [respError |-> "", message |-> "", status |-> 404] }

\* mutant: the interceptor without its last fallback
ResponseInterceptorNoFallback(e) ==
    [message |-> Or(e.respError, e.message), status |-> e.status]

\* response interceptor: every rejection becomes an ApiError(message, status, ..)
ResponseInterceptor(e) ==
    [message |-> Or(Or(e.respError, e.message), "An error occurred"),
     status |-> e.status]

\* what the hooks store: err.response?.data?.error || err.message ; an ApiError
\* has no response field, so the first operand is undefined
HookErrorText(apiErr) == Or(Null, apiErr.message)

\* ------------------------------------------------------------------------
\* Chat backend (POST /chat/message, GET /chat/history)
\* ------------------------------------------------------------------------
Sessions == {"A", "B"}

HistoryLimit == 20

UserMsg(n, s) == [role |-> "user", call |-> n, session |-> s]

AiMsg(n, s) == [role |-> "assistant", call |-> n, session |-> s]

LastN(s, n) == IF Len(s) <= n THEN s ELSE SubSeq(s, Len(s) - n + 1, Len(s))

\* sendMessage(session_id, text): append the user message, then the reply
ServerAppendTurn(log, n, s) == Append(Append(log, UserMsg(n, s)), AiMsg(n, s))

\* getChatHistory(session_id, limit): the latest `limit` messages of the log
ServerHistory(log) == LastN(log, HistoryLimit)

NewTask(kind, s) ==
    [kind |-> kind, session |-> s, stage |-> "sent", payload |-> <<>>,
     err |-> [respError |-> Null, message |-> "", status |-> 0], failedAt |-> 0]

Pending(n, kind, stage) ==
    /\ n \in 1..Len(tasks)
    /\ tasks[n].kind = kind
    /\ tasks[n].stage = stage

\* the backend answers a chat message: both messages are appended to the log
ServerHandleSend(n) ==
    /\ Pending(n, "send", "sent")
    /\ serverLog' = [serverLog EXCEPT
                       ![tasks[n].session] = ServerAppendTurn(@, n, tasks[n].session)]
    /\ tasks' = [tasks EXCEPT ![n].stage = "ok"]
    /\ UNCHANGED <<sessionId, messages, loading, error, isTyping>>
    /\ ChatOnly

\* the backend answers a history request with the log as it is now
ServerHandleLoad(n) ==
    /\ Pending(n, "load", "sent")
    /\ tasks' = [tasks EXCEPT ![n].stage = "ok",
                              ![n].payload = ServerHistory(serverLog[tasks[n].session])]
    /\ UNCHANGED <<sessionId, messages, loading, error, isTyping, serverLog>>
    /\ ChatOnly

\* a request fails (network, timeout, error status)
RequestFails(n, e) ==
    /\ n \in 1..Len(tasks)
    /\ tasks[n].stage = "sent"
    /\ tasks' = [tasks EXCEPT ![n].stage = "fail", ![n].err = e]
    /\ UNCHANGED <<sessionId, messages, loading, error, isTyping, serverLog>>
    /\ ChatOnly

\* ------------------------------------------------------------------------
\* useChat (hooks/useApi)
\* ------------------------------------------------------------------------

\* loadChatHistory up to its await
LoadStart ==
    /\ Len(tasks) < MaxCalls
    /\ loading' = TRUE
    /\ error' = Null
    /\ tasks' = Append(tasks, NewTask("load", sessionId))

\* loadChatHistory called through the returned refetch
loadChatHistory ==
    /\ LoadStart
    /\ UNCHANGED <<sessionId, messages, isTyping, serverLog>>
    /\ ChatOnly

\* loadChatHistory after its await, success: setMessages(response.messages)
LoadResolve(n) ==
    /\ Pending(n, "load", "ok")
    /\ messages' = tasks[n].payload
    /\ loading' = FALSE
    /\ tasks' = [tasks EXCEPT ![n].stage = "done"]
    /\ UNCHANGED <<sessionId, error, isTyping, serverLog>>
    /\ ChatOnly

\* loadChatHistory after its await, failure: catch + finally
LoadReject(n) ==
    /\ Pending(n, "load", "fail")
    /\ error' = HookErrorText(ResponseInterceptor(tasks[n].err))
    /\ loading' = FALSE
    /\ tasks' = [tasks EXCEPT ![n].stage = "failed", ![n].failedAt = Len(tasks)]
    /\ UNCHANGED <<sessionId, messages, isTyping, serverLog>>
    /\ ChatOnly

\* sendMessage up to its await: the user message is added at once
sendMessage ==
    /\ Len(tasks) < MaxCalls
    /\ isTyping' = TRUE
    /\ error' = Null
    /\ messages' = Append(messages, UserMsg(Len(tasks) + 1, sessionId))
    /\ tasks' = Append(tasks, NewTask("send", sessionId))
    /\ UNCHANGED <<sessionId, loading, serverLog>>
    /\ ChatOnly

\* sendMessage after its await, success: the reply is added
SendResolve(n) ==
    /\ Pending(n, "send", "ok")
    /\ messages' = Append(messages, AiMsg(n, tasks[n].session))
    /\ isTyping' = FALSE
    /\ tasks' = [tasks EXCEPT ![n].stage = "done"]
    /\ UNCHANGED <<sessionId, loading, error, serverLog>>
    /\ ChatOnly

\* sendMessage after its await, failure: catch + finally
SendReject(n) ==
    /\ Pending(n, "send", "fail")
    /\ error' = HookErrorText(ResponseInterceptor(tasks[n].err))
    /\ isTyping' = FALSE
    /\ tasks' = [tasks EXCEPT ![n].stage = "failed", ![n].failedAt = Len(tasks)]
    /\ UNCHANGED <<sessionId, messages, loading, serverLog>>
    /\ ChatOnly

clearChat ==
    /\ messages' = <<>>
    /\ UNCHANGED <<sessionId, loading, error, isTyping, tasks, serverLog>>
    /\ ChatOnly

\* the hook is rendered with another sessionId: loadChatHistory is re-created
\* and the effect that depends on it runs it
SetSessionId(s) ==
    /\ s # sessionId
    /\ sessionId' = s
    /\ Len(tasks) < MaxCalls
    /\ loading' = TRUE
    /\ error' = Null
    /\ tasks' = Append(tasks, NewTask("load", s))
    /\ UNCHANGED <<messages, isTyping, serverLog>>
    /\ ChatOnly

\* ------------------------------------------------------------------------
\* ChatInterface (components/ChatInterface)
\* ------------------------------------------------------------------------

\* handleSend: if (!message || isTyping) return
handleSend ==
    /\ ~isTyping
    /\ sendMessage

\* the refresh button: onClick={refetch} disabled={loading}
RefreshClick ==
    /\ ~loading
    /\ loadChatHistory

\* the trash button is rendered when messages.length > 0
ClearClick ==
    /\ Len(messages) > 0
    /\ clearChat

\* first render of useChat(sessionId) and its mount effect
ChatInit ==
    /\ sessionId = "A"
    /\ messages = <<>>
    /\ loading = TRUE
    /\ error = Null
    /\ isTyping = FALSE
    /\ tasks = <<NewTask("load", "A")>>
    /\ serverLog = [s \in Sessions |-> <<>>]

ChatNext ==
    \/ sendMessage
    \/ loadChatHistory
    \/ clearChat
    \/ handleSend
    \/ RefreshClick
    \/ ClearClick
    \/ \E s \in Sessions : SetSessionId(s)
    \/ \E n \in 1..MaxCalls : ServerHandleSend(n)
    \/ \E n \in 1..MaxCalls : ServerHandleLoad(n)
    \/ \E n \in 1..MaxCalls, e \in RawErrors : RequestFails(n, e)
    \/ \E n \in 1..MaxCalls : LoadResolve(n)
    \/ \E n \in 1..MaxCalls : LoadReject(n)
    \/ \E n \in 1..MaxCalls : SendResolve(n)
    \/ \E n \in 1..MaxCalls : SendReject(n)


\* ------------------------------------------------------------------------
\* hooks/useCommon : useAsyncOperation
\* ------------------------------------------------------------------------

\* execute(fn) before fn: setIsLoading(true); setError(null)
AsyncOpStart == [isLoading |-> TRUE, error |-> Null]

\* execute(fn) after fn resolved: setIsLoading(false)
AsyncOpDone(err) == [isLoading |-> FALSE, error |-> err]

\* execute(fn) after fn threw e: setError(e); setIsLoading(false); rethrow
AsyncOpFail(e) == [isLoading |-> FALSE, error |-> e]

\* ------------------------------------------------------------------------
\* utils/security.js : validateJournalEntry
\* ------------------------------------------------------------------------
IsSpace(c) == c \in {" ", "\n"}

\* String.prototype.trim() has length 0
Blank(str) == \A i \in 1..Len(str) : IsSpace(str[i])

TitleMax == 200

ContentMax == 50000

validateJournalEntry(title, content) ==
    LET e1 == IF Len(title) = 0 \/ Blank(title) THEN <<"Title is required">> ELSE <<>>
        e2 == IF Len(title) # 0 /\ Len(title) > TitleMax
              THEN <<"Title must be less than 200 characters">> ELSE <<>>
        e3 == IF Len(content) = 0 \/ Blank(content) THEN <<"Content is required">> ELSE <<>>
        e4 == IF Len(content) # 0 /\ Len(content) > ContentMax
              THEN <<"Content must be less than 50,000 characters">> ELSE <<>>
        errors == e1 \o e2 \o e3 \o e4
    IN  [isValid |-> Len(errors) = 0, errors |-> errors]

\* ------------------------------------------------------------------------
\* JournalPage (pages/JournalPage.jsx), useEntry and useAutoSave (hooks/useApi)
\* ------------------------------------------------------------------------
Ids == {"e1", "e2"}

\* markdown documents, as sequences of characters
UntitledEntry == <<"U">>

DefaultMarkdown == <<"#", " ", "U", "\n", "w">>

Docs == { <<"#", " ", "a">>, <<"b">>, <<"#">> }

RECURSIVE SkipSpaces(_)
SkipSpaces(str) ==
    IF Len(str) > 0 /\ IsSpace(str[1]) THEN SkipSpaces(Tail(str)) ELSE str

RECURSIVE UpToNewline(_)
UpToNewline(str) ==
    IF Len(str) = 0 \/ str[1] = "\n" THEN <<>>
    ELSE <<str[1]>> \o UpToNewline(Tail(str))

\* markdown.match(/^#\s*(.*)/) : group 1, or "Untitled Entry" without a match
parseTitle(markdown) ==
    IF Len(markdown) > 0 /\ markdown[1] = "#"
    THEN UpToNewline(SkipSpaces(Tail(markdown)))
    ELSE UntitledEntry

NoEntry == [id |-> "none", status |-> "none", content |-> <<>>]

NoTimer == [armed |-> FALSE, entry |-> NoEntry, id |-> "none"]

NoError == [respError |-> Null, message |-> "", status |-> 0]

JTask(op, id, body) ==
    [op |-> op, id |-> id, body |-> body, origin |-> "none", stage |-> "sent",
     payload |-> NoEntry, err |-> NoError]

Settled(t) == t.stage \in {"done", "failed"}

JPending(n, op, stage) ==
    /\ n \in 1..Len(jtasks)
    /\ jtasks[n].op = op
    /\ jtasks[n].stage = stage

\* the function useAutoSave is given: entry?.status === "complete" ? null : saveChanges.
\* saveChanges depends on announce, which useScreenReader creates anew in every
\* render, so every render re-runs the effect: the old timeout is cleared and a
\* new one is set for the saveChanges of this render.
ScheduleAutoSave(e, id) ==
    IF e.status = "complete" THEN NoTimer
    ELSE [armed |-> TRUE, entry |-> e, id |-> id]

\* markdown={entry?.content || DEFAULT_VALUES.MARKDOWN}, read when the editor mounts
InitialMarkdown(e) == IF Len(e.content) > 0 THEN e.content ELSE DefaultMarkdown

\* a render of JournalPage after a state change, and its effects
Render ==
    /\ autoTimer' = ScheduleAutoSave(entry', jid')
    /\ editorOn' = (entry' # NoEntry /\ jError' = Null)
    /\ editorDoc' = IF ~editorOn' THEN <<>>
                    ELSE IF editorOn THEN editorDoc
                    ELSE InitialMarkdown(entry')
    /\ docOrigin' = IF ~editorOn' THEN "none"
                    ELSE IF editorOn THEN docOrigin
                    ELSE entry'.id

\* the route id changes: fetchEntry is re-created and its effect runs it
RouteChange(i) ==
    /\ i # jid
    /\ Len(jtasks) < MaxReq
    /\ jid' = i
    /\ jLoading' = TRUE
    /\ jError' = Null
    /\ jtasks' = Append(jtasks, JTask("get", i, <<>>))
    /\ UNCHANGED <<entry, isCompleting, isSaving, lastSaved, store>>
    /\ Render
    /\ JournalOnly

\* fetchEntry after its await
GetResolve(n) ==
    /\ JPending(n, "get", "ok")
    /\ entry' = jtasks[n].payload
    /\ jLoading' = FALSE
    /\ jtasks' = [jtasks EXCEPT ![n].stage = "done"]
    /\ UNCHANGED <<jid, jError, isCompleting, isSaving, lastSaved, store>>
    /\ Render
    /\ JournalOnly

GetReject(n) ==
    /\ JPending(n, "get", "fail")
    /\ jError' = HookErrorText(ResponseInterceptor(jtasks[n].err))
    /\ jLoading' = FALSE
    /\ jtasks' = [jtasks EXCEPT ![n].stage = "failed"]
    /\ UNCHANGED <<jid, entry, isCompleting, isSaving, lastSaved, store>>
    /\ Render
    /\ JournalOnly

\* the user types in the editor (not read-only); JournalPage does not re-render
Edit(d) ==
    /\ editorOn
    /\ entry.status # "complete"
    /\ d # editorDoc
    /\ editorDoc' = d
    /\ docOrigin' = entry.id
    /\ UNCHANGED <<jid, entry, jLoading, jError, isCompleting, isSaving, lastSaved,
                   autoTimer, editorOn, jtasks, store>>
    /\ JournalOnly

\* saveChanges of the render that set the timer returns before updateEntry
SaveReturnsEarly(t) ==
    \/ t.entry = NoEntry
    \/ ~editorOn
    \/ t.entry.status = "complete"
    \/ ~validateJournalEntry(parseTitle(editorDoc), editorDoc).isValid

\* the autosave timeout fires: setIsSaving(true); await saveFunction(); ...
\* Here saveChanges returns early, so the callback runs to its end.
AutoSaveSkip ==
    /\ autoTimer.armed
    /\ SaveReturnsEarly(autoTimer)
    /\ lastSaved' = "set"
    /\ isSaving' = FALSE
    /\ UNCHANGED <<jid, entry, jLoading, jError, isCompleting, jtasks, store>>
    /\ Render
    /\ JournalOnly

\* the autosave timeout fires and saveChanges reaches updateEntry({title, content})
AutoSaveSend ==
    /\ autoTimer.armed
    /\ ~SaveReturnsEarly(autoTimer)
    /\ Len(jtasks) < MaxReq
    /\ isSaving' = TRUE
    /\ jLoading' = TRUE
    /\ jError' = Null
    /\ jtasks' = Append(jtasks, [JTask("update", autoTimer.id, editorDoc)
                                    EXCEPT !.origin = docOrigin])
    /\ UNCHANGED <<jid, entry, isCompleting, lastSaved, store>>
    /\ Render
    /\ JournalOnly

\* the same with a full list of requests: the request takes the place of the
\* oldest one, which is settled
AutoSaveSendAgain ==
    /\ autoTimer.armed
    /\ ~SaveReturnsEarly(autoTimer)
    /\ Len(jtasks) = MaxReq
    /\ Settled(jtasks[1])
    /\ isSaving' = TRUE
    /\ jLoading' = TRUE
    /\ jError' = Null
    /\ jtasks' = Append(Tail(jtasks), [JTask("update", autoTimer.id, editorDoc)
                                          EXCEPT !.origin = docOrigin])
    /\ UNCHANGED <<jid, entry, isCompleting, lastSaved, store>>
    /\ Render
    /\ JournalOnly

\* updateEntry after its await, then the rest of saveChanges and of the timeout callback
UpdateResolve(n) ==
    /\ JPending(n, "update", "ok")
    /\ entry' = jtasks[n].payload
    /\ jLoading' = FALSE
    /\ lastSaved' = "set"
    /\ isSaving' = FALSE
    /\ jtasks' = [jtasks EXCEPT ![n].stage = "done"]
    /\ UNCHANGED <<jid, jError, isCompleting, store>>
    /\ Render
    /\ JournalOnly

\* updateEntry rejects; saveChanges catches it, so the callback still sets lastSaved
UpdateReject(n) ==
    /\ JPending(n, "update", "fail")
    /\ jError' = HookErrorText(ResponseInterceptor(jtasks[n].err))
    /\ jLoading' = FALSE
    /\ lastSaved' = "set"
    /\ isSaving' = FALSE
    /\ jtasks' = [jtasks EXCEPT ![n].stage = "failed"]
    /\ UNCHANGED <<jid, entry, isCompleting, store>>
    /\ Render
    /\ JournalOnly

\* handleCompleteEntry through the Switch (disabled when complete, deleting or completing)
handleCompleteEntry ==
    /\ entry # NoEntry
    /\ jError = Null
    /\ entry.status # "complete"
    /\ ~isCompleting
    /\ Len(jtasks) < MaxReq
    /\ isCompleting' = AsyncOpStart.isLoading
    /\ jLoading' = TRUE
    /\ jError' = Null
    /\ jtasks' = Append(jtasks, JTask("complete", jid, <<>>))
    /\ UNCHANGED <<jid, entry, isSaving, lastSaved, store>>
    /\ Render
    /\ JournalOnly

CompleteResolve(n) ==
    /\ JPending(n, "complete", "ok")
    /\ entry' = jtasks[n].payload
    /\ jLoading' = FALSE
    /\ isCompleting' = FALSE
    /\ jtasks' = [jtasks EXCEPT ![n].stage = "done"]
    /\ UNCHANGED <<jid, jError, isSaving, lastSaved, store>>
    /\ Render
    /\ JournalOnly

CompleteReject(n) ==
    /\ JPending(n, "complete", "fail")
    /\ jError' = HookErrorText(ResponseInterceptor(jtasks[n].err))
    /\ jLoading' = FALSE
    /\ isCompleting' = FALSE
    /\ jtasks' = [jtasks EXCEPT ![n].stage = "failed"]
    /\ UNCHANGED <<jid, entry, isSaving, lastSaved, store>>
    /\ Render
    /\ JournalOnly

\* ---- journal backend ----
StoredEntry(st, id) == [id |-> id, status |-> st[id].status, content |-> st[id].content]

StoreApply(st, t) ==
    IF t.op = "update" THEN [st EXCEPT ![t.id].content = t.body]
    ELSE IF t.op = "complete" THEN [st EXCEPT ![t.id].status = "complete"]
    ELSE st

JServerHandle(n) ==
    /\ n \in 1..Len(jtasks)
    /\ jtasks[n].stage = "sent"
    /\ store' = StoreApply(store, jtasks[n])
    /\ jtasks' = [jtasks EXCEPT ![n].stage = "ok",
                                ![n].payload = StoredEntry(store', jtasks[n].id)]
    /\ UNCHANGED <<jid, entry, jLoading, jError, isCompleting, isSaving, lastSaved,
                   autoTimer, editorOn, editorDoc, docOrigin>>
    /\ JournalOnly

JRequestFails(n, e) ==
    /\ n \in 1..Len(jtasks)
    /\ jtasks[n].stage = "sent"
    /\ jtasks' = [jtasks EXCEPT ![n].stage = "fail", ![n].err = e]
    /\ UNCHANGED <<jid, entry, jLoading, jError, isCompleting, isSaving, lastSaved,
                   autoTimer, editorOn, editorDoc, docOrigin, store>>
    /\ JournalOnly

\* first render of JournalPage for /journal/e1 and its mount effects
JournalInit ==
    /\ jid = "e1"
    /\ entry = NoEntry
    /\ jLoading = TRUE
    /\ jError = Null
    /\ isCompleting = FALSE
    /\ isSaving = FALSE
    /\ lastSaved = Null
    /\ autoTimer = ScheduleAutoSave(NoEntry, "e1")
    /\ editorOn = FALSE
    /\ editorDoc = <<>>
    /\ docOrigin = "none"
    /\ jtasks = <<JTask("get", "e1", <<>>)>>
    /\ store = [i \in Ids |-> [status |-> "draft",
                              content |-> IF i = "e1" THEN <<"#", " ", "a">> ELSE <<>>]]

JournalNext ==
    \/ \E i \in Ids : RouteChange(i)
    \/ \E d \in Docs : Edit(d)
    \/ AutoSaveSkip
    \/ AutoSaveSend
    \/ handleCompleteEntry
    \/ \E n \in 1..MaxReq : GetResolve(n)
    \/ \E n \in 1..MaxReq : GetReject(n)
    \/ \E n \in 1..MaxReq : UpdateResolve(n)
    \/ \E n \in 1..MaxReq : UpdateReject(n)
    \/ \E n \in 1..MaxReq : CompleteResolve(n)
    \/ \E n \in 1..MaxReq : CompleteReject(n)
    \/ \E n \in 1..MaxReq : JServerHandle(n)
    \/ \E n \in 1..MaxReq, e \in RawErrors : JRequestFails(n, e)

\* a draft is shown and stays the entry of the page: no route change, no completion
AutoSaveNext ==
    \/ \E d \in Docs : Edit(d)
    \/ AutoSaveSkip
    \/ AutoSaveSend
    \/ AutoSaveSendAgain
    \/ \E n \in 1..MaxReq : GetResolve(n)
    \/ \E n \in 1..MaxReq : GetReject(n)
    \/ \E n \in 1..MaxReq : UpdateResolve(n)
    \/ \E n \in 1..MaxReq : UpdateReject(n)
    \/ \E n \in 1..MaxReq : JServerHandle(n)
    \/ \E n \in 1..MaxReq, e \in RawErrors : JRequestFails(n, e)

\* ------------------------------------------------------------------------
\* utils/security.js : validateSearchQuery, RateLimiter
\* ------------------------------------------------------------------------
RECURSIVE DropRightSpaces(_)
DropRightSpaces(str) ==
    IF Len(str) > 0 /\ IsSpace(str[Len(str)])
    THEN DropRightSpaces(SubSeq(str, 1, Len(str) - 1)) ELSE str

Trim(str) == DropRightSpaces(SkipSpaces(str))

IsDangerous(c) == c \in {"<", ">", "\"", "'", "&"}

QueryMax == 100

validateSearchQuery(query) ==
    LET sanitized == Trim(SelectSeq(query, LAMBDA c : ~IsDangerous(c)))
    IN  IF Len(query) = 0
        THEN [isValid |-> FALSE, sanitized |-> <<>>]
        ELSE [isValid |-> Len(sanitized) > 0 /\ Len(sanitized) <= QueryMax,
              sanitized |-> sanitized]

\* mutant: the window test admits one call too many
canMakeCallOffByOne(calls, t, maxCalls, windowMs) ==
    LET kept == SelectSeq(calls, LAMBDA c : t - c < windowMs)
    IN  IF Len(kept) <= maxCalls
        THEN [ok |-> TRUE, calls |-> Append(kept, t)]
        ELSE [ok |-> FALSE, calls |-> kept]

\* RateLimiter.canMakeCall at Date.now() = t: the answer and this.calls afterwards
canMakeCall(calls, t, maxCalls, windowMs) ==
    LET kept == SelectSeq(calls, LAMBDA c : t - c < windowMs)
    IN  IF Len(kept) < maxCalls
        THEN [ok |-> TRUE, calls |-> Append(kept, t)]
        ELSE [ok |-> FALSE, calls |-> kept]

\* ------------------------------------------------------------------------
\* ChatPage (pages/ChatPage.jsx)
\* ------------------------------------------------------------------------
ThrottleDelay == 2000

ReflectionMaxCalls == 10

ReflectionWindowMs == 60000

Prompts == { <<"q">>, <<"<">>, <<" ">> }

\* bodies of a 200 answer of POST /ai/get-reflection
ReflectionData ==
    { [reflection |-> "No relevant history found", notes |-> <<>>],
      [reflection |-> Null, notes |-> <<>>],
      [reflection |-> "You ran. You felt great.", notes |-> <<"n1">>] }

NoData == [reflection |-> Null, notes |-> <<>>]

NoFetch == [stage |-> "none", data |-> NoData, err |-> Null]

\* calls the module-level limiter may hold from an earlier visit of the page
EarlierCalls == [i \in 1..(ReflectionMaxCalls - 1) |-> (i - ReflectionMaxCalls) * 1000]

\* the user types in the search input (disabled while loading)
SetPrompt(q) ==
    /\ ~rLoading
    /\ q # prompt
    /\ prompt' = q
    /\ UNCHANGED <<cards, reflection, rLoading, rError, lastRun, reflCalls, now, fetchReq>>
    /\ ReflectOnly

\* a second passes
Tick ==
    /\ now < MaxClock * 1000
    /\ now' = now + 1000
    /\ UNCHANGED <<prompt, cards, reflection, rLoading, rError, lastRun, reflCalls, fetchReq>>
    /\ ReflectOnly

\* fetchReflection (form submit, Ctrl+Enter, or "Try again") reaches the throttled callback
ThrottlePasses ==
    /\ ~rLoading
    /\ Len(Trim(prompt)) > 0
    /\ now - lastRun >= ThrottleDelay

\* throttledFetch: the query is invalid
SubmitInvalid ==
    /\ ThrottlePasses
    /\ ~validateSearchQuery(prompt).isValid
    /\ lastRun' = now
    /\ UNCHANGED <<prompt, cards, reflection, rLoading, rError, reflCalls, now, fetchReq>>
    /\ ReflectOnly

\* throttledFetch: the rate limiter refuses
SubmitRateLimited ==
    /\ ThrottlePasses
    /\ validateSearchQuery(prompt).isValid
    /\ LET r == canMakeCall(reflCalls, now, ReflectionMaxCalls, ReflectionWindowMs)
       IN  /\ ~r.ok
           /\ reflCalls' = r.calls
    /\ lastRun' = now
    /\ UNCHANGED <<prompt, cards, reflection, rLoading, rError, now, fetchReq>>
    /\ ReflectOnly

\* throttledFetch: executeReflection starts and the fetch is sent
SubmitFetch ==
    /\ ThrottlePasses
    /\ validateSearchQuery(prompt).isValid
    /\ LET r == canMakeCall(reflCalls, now, ReflectionMaxCalls, ReflectionWindowMs)
       IN  /\ r.ok
           /\ reflCalls' = r.calls
    /\ lastRun' = now
    /\ rLoading' = AsyncOpStart.isLoading
    /\ rError' = AsyncOpStart.error
    /\ reflection' = ""
    /\ cards' = <<>>
    /\ fetchReq' = [stage |-> "sent", data |-> NoData, err |-> Null]
    /\ UNCHANGED <<prompt, now>>
    /\ ReflectOnly

\* the server answers 200 with a body
FetchAnswers(d) ==
    /\ fetchReq.stage = "sent"
    /\ fetchReq' = [stage |-> "ok", data |-> d, err |-> Null]
    /\ UNCHANGED <<prompt, cards, reflection, rLoading, rError, lastRun, reflCalls, now>>
    /\ ReflectOnly

\* the fetch fails: a status outside 2xx (resp.ok false), or a network error
FetchFails(msg) ==
    /\ fetchReq.stage = "sent"
    /\ fetchReq' = [stage |-> "fail", data |-> NoData, err |-> msg]
    /\ UNCHANGED <<prompt, cards, reflection, rLoading, rError, lastRun, reflCalls, now>>
    /\ ReflectOnly

FetchErrors == {"Request failed: 500", "Failed to fetch"}

\* after the awaits: setReflection(data.reflection || ''); setCards(data.notes || [])
ReflectResolve ==
    /\ fetchReq.stage = "ok"
    /\ reflection' = Or(fetchReq.data.reflection, "")
    /\ cards' = fetchReq.data.notes
    /\ rLoading' = AsyncOpDone(rError).isLoading
    /\ rError' = AsyncOpDone(rError).error
    /\ fetchReq' = NoFetch
    /\ UNCHANGED <<prompt, lastRun, reflCalls, now>>
    /\ ReflectOnly

\* the callback threw: execute records the error, throttledFetch catches it
ReflectReject ==
    /\ fetchReq.stage = "fail"
    /\ rLoading' = AsyncOpFail(fetchReq.err).isLoading
    /\ rError' = AsyncOpFail(fetchReq.err).error
    /\ fetchReq' = NoFetch
    /\ UNCHANGED <<prompt, cards, reflection, lastRun, reflCalls, now>>
    /\ ReflectOnly

\* ChatPage mounts; the limiter is a module-level object and may hold earlier calls
ReflectInit ==
    /\ prompt = <<>>
    /\ cards = <<>>
    /\ reflection = ""
    /\ rLoading = FALSE
    /\ rError = Null
    /\ lastRun = 0
    /\ reflCalls \in {<<>>, EarlierCalls}
    /\ now = 0
    /\ fetchReq = NoFetch

ReflectNext ==
    \/ \E q \in Prompts : SetPrompt(q)
    \/ Tick
    \/ SubmitInvalid
    \/ SubmitRateLimited
    \/ SubmitFetch
    \/ \E d \in ReflectionData : FetchAnswers(d)
    \/ \E m \in FetchErrors : FetchFails(m)
    \/ ReflectResolve
    \/ ReflectReject

\* ------------------------------------------------------------------------
\* api.ai (services/api.js), config/env, and the AI backend
\* ------------------------------------------------------------------------

\* an argument that is not passed, a config key that is not set
Undefined == -1

DefaultApiTimeout == 30000

\* config.api.timeout: parseInt(import.meta.env.VITE_API_TIMEOUT) || 30000
ConfigApiTimeout(env) == IF env = Undefined \/ env = 0 THEN DefaultApiTimeout ELSE env

ReviewTimeout == 60000

\* the properties of the object literal api.ai, in source order
AiProperties ==
    << [name |-> "processEntry", method |-> "POST", url |-> "/ai/process-entry", timeout |-> Undefined],
       [name |-> "reviewEntry", method |-> "POST", url |-> "/ai/review-entry", timeout |-> ReviewTimeout],
       [name |-> "getSuggestion", method |-> "POST", url |-> "/ai/suggest-prompt", timeout |-> Undefined],
       [name |-> "reviewEntry", method |-> "POST", url |-> "/ai/review-entry", timeout |-> Undefined],
       [name |-> "searchSimilar", method |-> "POST", url |-> "/ai/search-similar", timeout |-> Undefined] >>

\* api.ai[name]: of two properties with one name the later one is the object's
AiMethod(name) ==
    LET idx == {i \in 1..Len(AiProperties) : AiProperties[i].name = name}
    IN  AiProperties[CHOOSE i \in idx : \A j \in idx : j <= i]

\* axios merges the request config over the instance defaults
RequestTimeout(method, env) ==
    IF method.timeout # Undefined THEN method.timeout ELSE ConfigApiTimeout(env)

DefaultLimit == 10

\* 0.7, in hundredths
DefaultSimilarityThreshold == 70

\* mutant: limit and similarity_threshold filled from the wrong arguments
SearchSimilarBodySwapped(query, limit, similarityThreshold) ==
    [query |-> query,
     limit |-> IF similarityThreshold = Undefined THEN DefaultSimilarityThreshold
               ELSE similarityThreshold,
     similarity_threshold |-> IF limit = Undefined THEN DefaultLimit ELSE limit]

\* searchSimilar(query, limit = 10, similarityThreshold = 0.7): the body it posts
SearchSimilarBody(query, limit, similarityThreshold) ==
    [query |-> query,
     limit |-> IF limit = Undefined THEN DefaultLimit ELSE limit,
     similarity_threshold |-> IF similarityThreshold = Undefined
                              THEN DefaultSimilarityThreshold ELSE similarityThreshold]

NoBody == [query |-> "", limit |-> Undefined, similarity_threshold |-> Undefined]

ApiRequest(name, args, body) ==
    [name |-> name, method |-> AiMethod(name).method, url |-> AiMethod(name).url,
     timeout |-> RequestTimeout(AiMethod(name), envTimeout),
     args |-> args, body |-> body, elapsed |-> 0, stage |-> "sent",
     data |-> <<>>, err |-> NoError]

\* ReviewSidebar: the effect on entryID and handleRetry call api.ai.reviewEntry(entryID)
CallReviewEntry(id) ==
    /\ Len(apiReqs) < MaxApiReq
    /\ apiReqs' = Append(apiReqs,
                         ApiRequest("reviewEntry", [query |-> id, limit |-> Undefined,
                                                    similarity_threshold |-> Undefined], NoBody))
    /\ UNCHANGED <<envTimeout, facts>>
    /\ ApiOnly

\* api.ai.searchSimilar(query, limit, similarityThreshold)
CallSearchSimilar(q, k, t) ==
    /\ Len(apiReqs) < MaxApiReq
    /\ apiReqs' = Append(apiReqs,
                         ApiRequest("searchSimilar",
                                    [query |-> q, limit |-> k, similarity_threshold |-> t],
                                    SearchSimilarBody(q, k, t)))
    /\ UNCHANGED <<envTimeout, facts>>
    /\ ApiOnly

\* ---- AI backend: the vector store's search ----

\* a ranks before b: higher similarity, then more recent created_at
RanksBefore(a, b) ==
    \/ a.sim > b.sim
    \/ a.sim = b.sim /\ a.created_at > b.created_at

RECURSIVE Ranked(_)
Ranked(fs) ==
    IF fs = {} THEN <<>>
    ELSE LET best == CHOOSE f \in fs : \A g \in fs \ {f} : ~RanksBefore(g, f)
         IN  <<best>> \o Ranked(fs \ {best})

FirstK(seq, k) == IF Len(seq) <= k THEN seq ELSE SubSeq(seq, 1, k)

\* search(q, k, t): the k best facts with similarity >= t
Search(fs, k, t) == FirstK(Ranked({f \in fs : f.sim >= t}), k)

FactPool ==
    { [id |-> "f1", sim |-> 80, created_at |-> 1],
      [id |-> "f2", sim |-> 80, created_at |-> 2],
      [id |-> "f3", sim |-> 95, created_at |-> 3],
      [id |-> "f4", sim |-> 60, created_at |-> 4] }

FactStores == { {}, {f \in FactPool : f.sim = 80}, {f \in FactPool : f.sim >= 80}, FactPool }

ApiWaiting(n) ==
    /\ n \in 1..Len(apiReqs)
    /\ apiReqs[n].stage = "sent"

\* the backend answers a request
ApiServerAnswers(n) ==
    /\ ApiWaiting(n)
    /\ apiReqs[n].elapsed < apiReqs[n].timeout
    /\ apiReqs' = [apiReqs EXCEPT
                     ![n].stage = "ok",
                     ![n].data = IF apiReqs[n].name = "searchSimilar"
                                 THEN Search(facts, apiReqs[n].body.limit,
                                             apiReqs[n].body.similarity_threshold)
                                 ELSE <<>>]
    /\ UNCHANGED <<envTimeout, facts>>
    /\ ApiOnly

\* thirty seconds pass; a timeout that is due fires before more time passes
ApiTick ==
    /\ \E n \in 1..Len(apiReqs) : apiReqs[n].stage = "sent"
    /\ \A n \in 1..Len(apiReqs) :
          apiReqs[n].stage = "sent" => apiReqs[n].elapsed < apiReqs[n].timeout
    /\ apiReqs' = [n \in 1..Len(apiReqs) |->
                     IF apiReqs[n].stage = "sent"
                     THEN [apiReqs[n] EXCEPT !.elapsed = @ + 30000]
                     ELSE apiReqs[n]]
    /\ UNCHANGED <<envTimeout, facts>>
    /\ ApiOnly

\* axios aborts a request whose timeout has passed
ApiTimeout(n) ==
    /\ ApiWaiting(n)
    /\ apiReqs[n].elapsed >= apiReqs[n].timeout
    /\ apiReqs' = [apiReqs EXCEPT
                     ![n].stage = "fail",
                     ![n].err = [respError |-> Null, message |-> "timeout exceeded",
                                 status |-> 0]]
    /\ UNCHANGED <<envTimeout, facts>>
    /\ ApiOnly

\* the awaiting method returns response.data
ApiReturns(n) ==
    /\ n \in 1..Len(apiReqs)
    /\ apiReqs[n].stage = "ok"
    /\ apiReqs' = [apiReqs EXCEPT ![n].stage = "done"]
    /\ UNCHANGED <<envTimeout, facts>>
    /\ ApiOnly

\* the awaiting method throws the ApiError of the interceptor
ApiThrows(n) ==
    /\ n \in 1..Len(apiReqs)
    /\ apiReqs[n].stage = "fail"
    /\ apiReqs' = [apiReqs EXCEPT
                     ![n].stage = "failed",
                     ![n].err = [respError |-> Null,
                                 message |-> ResponseInterceptor(apiReqs[n].err).message,
                                 status |-> ResponseInterceptor(apiReqs[n].err).status]]
    /\ UNCHANGED <<envTimeout, facts>>
    /\ ApiOnly

ApiInit ==
    /\ envTimeout \in {Undefined, 5000}
    /\ apiReqs = <<>>
    /\ facts \in FactStores

ApiNext ==
    \/ \E id \in Ids : CallReviewEntry(id)
    \/ \E k \in {Undefined, 1, 2}, t \in {Undefined, 90} : CallSearchSimilar("q", k, t)
    \/ ApiTick
    \/ \E n \in 1..MaxApiReq : ApiServerAnswers(n)
    \/ \E n \in 1..MaxApiReq : ApiTimeout(n)
    \/ \E n \in 1..MaxApiReq : ApiReturns(n)
    \/ \E n \in 1..MaxApiReq : ApiThrows(n)

\* ------------------------------------------------------------------------
\* queryClient (App.jsx): the retry policy of queries
\* ------------------------------------------------------------------------

\* error?.status of the errors a query function throws; Undefined is an
\* error without a status (a network error)
ErrorStatuses == {Undefined, 399, 400, 404, 499, 500, 503}

\* mutant: one more retry
retryOffByOne(failureCount, status) ==
    IF status >= 400 /\ status < 500 THEN FALSE ELSE failureCount <= 3

\* defaultOptions.queries.retry
retry(failureCount, status) ==
    IF status >= 400 /\ status < 500 THEN FALSE ELSE failureCount < 3

QueryKeys == {"entries", "entry"}

IdleQuery ==
    [status |-> "idle", attempts |-> 0, failureCount |-> 0, lastError |-> Undefined,
     retriedClientError |-> FALSE]

\* a query starts to fetch (mount, refetch, invalidation): first attempt
QueryFetch(k) ==
    /\ queries[k].status # "fetching"
    /\ queries' = [queries EXCEPT ![k] = [IdleQuery EXCEPT !.status = "fetching",
                                                           !.attempts = 1]]
    /\ QueryOnly

QuerySucceeds(k) ==
    /\ queries[k].status = "fetching"
    /\ queries' = [queries EXCEPT ![k].status = "success"]
    /\ QueryOnly

\* an attempt fails and the policy asks for another one
QueryRetries(k, st) ==
    /\ queries[k].status = "fetching"
    /\ retry(queries[k].failureCount, st)
    /\ queries' = [queries EXCEPT ![k].failureCount = @ + 1,
                                  ![k].attempts = @ + 1,
                                  ![k].lastError = st,
                                  ![k].retriedClientError = @ \/ (st >= 400 /\ st < 500)]
    /\ QueryOnly

\* an attempt fails and the policy gives up: the error surfaces
QueryGivesUp(k, st) ==
    /\ queries[k].status = "fetching"
    /\ ~retry(queries[k].failureCount, st)
    /\ queries' = [queries EXCEPT ![k].failureCount = @ + 1,
                                  ![k].lastError = st,
                                  ![k].status = "error"]
    /\ QueryOnly

QueryInit == queries = [k \in QueryKeys |-> IdleQuery]

QueryNext ==
    \/ \E k \in QueryKeys : QueryFetch(k)
    \/ \E k \in QueryKeys : QuerySucceeds(k)
    \/ \E k \in QueryKeys, st \in ErrorStatuses : QueryRetries(k, st)
    \/ \E k \in QueryKeys, st \in ErrorStatuses : QueryGivesUp(k, st)

\* ------------------------------------------------------------------------
\* RateLimiter (utils/security.js) and its two instances
\* ------------------------------------------------------------------------
SuggestionMaxCalls == 5

SuggestionWindowMs == 60000

Limiters ==
    { [maxCalls |-> ReflectionMaxCalls, windowMs |-> ReflectionWindowMs],
      [maxCalls |-> SuggestionMaxCalls, windowMs |-> SuggestionWindowMs] }

\* time passes
LimTick ==
    /\ limNow < MaxLimClock * 20000
    /\ limNow' = limNow + 20000
    /\ UNCHANGED <<limiter, limCalls, limLog>>
    /\ LimiterOnly

\* limiter.canMakeCall()
LimCanMakeCall ==
    /\ Len(limLog) < MaxInvocations
    /\ LET r == canMakeCall(limCalls, limNow, limiter.maxCalls, limiter.windowMs)
       IN  /\ limCalls' = r.calls
           /\ limLog' = Append(limLog, [t |-> limNow, ok |-> r.ok])
    /\ UNCHANGED <<limiter, limNow>>
    /\ LimiterOnly

LimiterInit ==
    /\ limiter \in Limiters
    /\ limCalls = <<>>
    /\ limNow = 0
    /\ limLog = <<>>

LimiterNext ==
    \/ LimTick
    \/ LimCanMakeCall

\* ------------------------------------------------------------------------
\* Sentence lists: RightSidebar.processedSuggestion and the reflection block
\* of ChatPage
\* ------------------------------------------------------------------------
IsTerminator(c) == c \in {".", "!", "?"}

\* [.!?]+ from position i on: how many characters it takes
RECURSIVE TerminatorRun(_, _)
TerminatorRun(str, i) ==
    IF i <= Len(str) /\ IsTerminator(str[i]) THEN 1 + TerminatorRun(str, i + 1) ELSE 0

\* \s+ from position i on: how many characters it takes
RECURSIVE SpaceRun(_, _)
SpaceRun(str, i) ==
    IF i <= Len(str) /\ IsSpace(str[i]) THEN 1 + SpaceRun(str, i + 1) ELSE 0

\* length of the match of /[.!?]+\s+/ that starts at position q, 0 without one
\* (giving back terminators never helps: the next character is a terminator)
MatchLength(str, q) ==
    LET r == TerminatorRun(str, q)
        w == SpaceRun(str, q + r)
    IN  IF r = 0 \/ w = 0 THEN 0 ELSE r + w

\* String.prototype.split(/([.!?]+\s+)/) from the end p of the last match,
\* looking for the next match from q on: texts and separators, alternating
RECURSIVE SplitFrom(_, _, _)
SplitFrom(str, p, q) ==
    IF q > Len(str) THEN <<SubSeq(str, p, Len(str))>>
    ELSE LET mlen == MatchLength(str, q)
         IN  IF mlen = 0 THEN SplitFrom(str, p, q + 1)
             ELSE <<SubSeq(str, p, q - 1), SubSeq(str, q, q + mlen - 1)>>
                  \o SplitFrom(str, q + mlen, q + mlen)

\* mutant: the separator is not put back
ReducePartsDropSeparator(parts, index) ==
    IF index % 2 = 0
    THEN IF index + 2 <= Len(parts)
         THEN <<parts[index + 1]>>
         ELSE IF Len(Trim(parts[index + 1])) > 0 THEN <<parts[index + 1]>> ELSE <<>>
    ELSE <<>>

\* mutant: the text after the last separator is forgotten
ReducePartsNoLast(parts, index) ==
    IF index % 2 = 0
    THEN IF index + 2 <= Len(parts)
         THEN <<parts[index + 1] \o parts[index + 2]>>
         ELSE <<>>
    ELSE <<>>

\* the reducer's step for array[index] (index from 0): what it pushes
ReduceParts(parts, index) ==
    IF index % 2 = 0
    THEN IF index + 2 <= Len(parts)
         THEN <<parts[index + 1] \o parts[index + 2]>>
         ELSE IF Len(Trim(parts[index + 1])) > 0 THEN <<parts[index + 1]>> ELSE <<>>
    ELSE <<>>

RECURSIVE Reduced(_, _)
Reduced(parts, index) ==
    IF index >= Len(parts) THEN <<>>
    ELSE ReduceParts(parts, index) \o Reduced(parts, index + 1)

\* .map(sentence => sentence.trim()).filter(sentence => sentence.length > 0)
TrimAll(list) == [i \in 1..Len(list) |-> Trim(list[i])]

NonEmpty(list) == SelectSeq(list, LAMBDA x : Len(x) > 0)

\* the value processedSuggestion computes for suggestion.prompt
SplitSentences(text) ==
    IF Len(text) = 0 THEN <<>>
    ELSE NonEmpty(TrimAll(Reduced(SplitFrom(text, 1, 1), 0)))

\* String.prototype.split('.')
RECURSIVE SplitOnDot(_, _, _)
SplitOnDot(str, p, q) ==
    IF q > Len(str) THEN <<SubSeq(str, p, Len(str))>>
    ELSE IF str[q] = "." THEN <<SubSeq(str, p, q - 1)>> \o SplitOnDot(str, q + 1, q + 1)
    ELSE SplitOnDot(str, p, q + 1)

\* the <li> texts of the reflection block: each sentence with "." appended
ReflectionList(text) ==
    IF Len(text) = 0 THEN <<>>
    ELSE LET kept == NonEmpty(TrimAll(SplitOnDot(text, 1, 1)))
         IN  [i \in 1..Len(kept) |-> Append(kept[i], ".")]

Alphabet == {"a", "3", ".", "?", " "}

RECURSIVE TextsOfLength(_)
TextsOfLength(n) ==
    IF n = 0 THEN {<<>>}
    ELSE {Append(t, c) : t \in TextsOfLength(n - 1), c \in Alphabet}

SpecialTexts ==
    { <<"D", "r", ".", " ", "S", "m", "i", "t", "h">>,
      <<"3", ".", "1", "4">>,
      <<"a", ".", " ", "a", "!", " ", "a", "?">>,
      <<"a", " ", "a", "?", "!", "\n", "a", ".", " ", " ", "a", ".", " ">> }

Texts == UNION {TextsOfLength(n) : n \in 1..MaxText} \cup SpecialTexts

\* RightSidebar.suggestTopic: setSuggestion(response), or the failure text,
\* after the setSuggestion(null) of this call; and the render that follows
SetSuggestion ==
    /\ page = "RightSidebar"
    /\ suggestion = <<>>
    /\ \E text \in Texts :
          /\ suggestion' = text
          /\ processedSuggestion' = SplitSentences(text)
    /\ UNCHANGED <<reflText, reflItems>>
    /\ SidebarOnly

\* RightSidebar.suggestTopic: setSuggestion(null)
ClearSuggestion ==
    /\ suggestion # <<>>
    /\ suggestion' = <<>>
    /\ processedSuggestion' = SplitSentences(<<>>)
    /\ UNCHANGED <<reflText, reflItems>>
    /\ SidebarOnly

\* ChatPage.throttledFetch: setReflection('')
ClearReflection ==
    /\ reflText # <<>>
    /\ reflText' = <<>>
    /\ reflItems' = ReflectionList(<<>>)
    /\ UNCHANGED <<suggestion, processedSuggestion>>
    /\ ListOnly

\* ChatPage.throttledFetch: setReflection(data.reflection) after the
\* setReflection('') of this call, and the render that follows
ShowReflection ==
    /\ page = "ReflectionList"
    /\ reflText = <<>>
    /\ \E text \in Texts :
          /\ reflText' = text
          /\ reflItems' = ReflectionList(text)
    /\ UNCHANGED <<suggestion, processedSuggestion>>
    /\ ListOnly

SplitInit ==
    /\ suggestion = <<>>
    /\ processedSuggestion = <<>>
    /\ reflText = <<>>
    /\ reflItems = <<>>

SplitNext ==
    \/ SetSuggestion
    \/ ClearSuggestion
    \/ ClearReflection
    \/ ShowReflection

\* ------------------------------------------------------------------------
\* validateJournalEntry (utils/security.js) on titles and contents around
\* its limits
\* ------------------------------------------------------------------------
Repeat(c, n) == [i \in 1..n |-> c]

TitleInputs ==
    {Repeat("a", n) : n \in {0, 1, TitleMax - 1, TitleMax, TitleMax + 1}}
        \cup {Repeat(" ", n) : n \in {1, TitleMax}} \cup {<<" ", "a", " ">>}

ContentInputs ==
    {Repeat("a", n) : n \in {0, 1, ContentMax - 1, ContentMax, ContentMax + 1}}
        \cup {Repeat(" ", n) : n \in {1, ContentMax}} \cup {<<"#", " ", "a">>}

NotValidated == [isValid |-> FALSE, errors |-> <<"not validated">>]

\* validateJournalEntry({ title, content })
Validate ==
    /\ vResult = NotValidated
    /\ vResult' = validateJournalEntry(vEntry.title, vEntry.content)
    /\ UNCHANGED vEntry
    /\ ValidateOnly

\* the next call, with another title
NextTitle ==
    /\ vResult # NotValidated
    /\ \E t \in TitleInputs : vEntry' = [vEntry EXCEPT !.title = t]
    /\ vResult' = NotValidated
    /\ ValidateOnly

\* the inputs are drawn where the function is the component under check
ValidateInit ==
    /\ vEntry \in IF page = "validateJournalEntry"
                  THEN [title : TitleInputs, content : ContentInputs]
                  ELSE {[title |-> <<>>, content |-> <<>>]}
    /\ vResult = NotValidated

ValidateNext ==
    \/ Validate
    \/ NextTitle

\* ------------------------------------------------------------------------
\* Layout with JournalEditor (components/Layout.jsx, JournalEditor.jsx),
\* useEntries and useAutoSave (hooks/useApi)
\* ------------------------------------------------------------------------
EditorTitles == {"", "t"}

EditorContents == {"", " ", "c"}

EditorData == [title : EditorTitles, content : EditorContents]

EmptyData == [title |-> "", content |-> ""]

\* String.prototype.trim() on the values above
TrimStr(str) == IF str = " " THEN "" ELSE str

\* selectedEntry is kept as the id the handlers read from it (the editor reads
\* its title and content at its mount only): NoSelection is null, the ids of
\* the server are 1, 2, ...
NoSelection == 0

\* the object handleSuggestionRequest builds: title and content, no id
SuggestedEntry == Undefined

\* a call of api.journal: id is the id the caller passed (NoSelection for
\* createEntry), payload the id of the entry the server returned
LTask(op, id, data, by) ==
    [op |-> op, id |-> id, data |-> data, by |-> by, stage |-> "sent",
     payload |-> NoSelection]

\* what JournalEditor passes to useAutoSave(saveFunction, delay = 2000): its
\* first argument is the data (or null), its second saveData; the third, 3000,
\* has no parameter to go to
EditorAutoSaveArgs(d) ==
    [saveFunction |-> IF d.title # "" \/ d.content # "" THEN "object" ELSE "null",
     delay |-> "function"]

\* useAutoSave's effect: a timeout is set unless saveFunction is falsy
TimerSet(args) == args.saveFunction # "null"

\* every render of JournalEditor passes a new object, so the effect runs again
EditorRender ==
    edTimer' = (isEditing' /\ TimerSet(EditorAutoSaveArgs(edData')))

\* saveData returns before onSave
SaveDataReturnsEarly(d) == TrimStr(d.title) = "" /\ TrimStr(d.content) = ""

\* Layout.handleSaveEntry as the closure with selectedEntry = sel runs it,
\* up to the await: updateEntry for a selected entry, createEntry without one
SaveRequest(sel, d, by) ==
    LTask(IF sel # NoSelection THEN "update" ELSE "create", sel, d, by)

\* JournalEditor.handleSave -> saveData({title, content}) -> onSave
SaveWith(sel, by) ==
    /\ isEditing
    /\ ~SaveDataReturnsEarly(edData)
    /\ Len(ltasks) < MaxSaves
    /\ edSaving' = TRUE
    /\ ltasks' = Append(ltasks, SaveRequest(sel, edData, by))
    /\ UNCHANGED <<selectedEntry, isEditing, entries, edData, kbSelected, edCompleting,
                   lstore, onCompleteCalls>>
    /\ EditorRender
    /\ LayoutOnly

\* the Save button (disabled while isSaving)
SaveClick ==
    /\ ~edSaving
    /\ SaveWith(selectedEntry, "button")

\* Ctrl/Cmd+S: the listener of the last change of title or content
SaveKey == SaveWith(kbSelected, "key")

\* the user types: setTitle / setContent; the keydown effect runs again
EditorChange(d) ==
    /\ isEditing
    /\ d # edData
    /\ edData' = d
    /\ kbSelected' = selectedEntry
    /\ UNCHANGED <<selectedEntry, isEditing, entries, edSaving, edCompleting, ltasks, lstore,
                   onCompleteCalls>>
    /\ EditorRender
    /\ LayoutOnly

\* Layout.handleSuggestionRequest while editing
handleSuggestionRequest ==
    /\ isEditing
    /\ selectedEntry # SuggestedEntry
    /\ selectedEntry' = SuggestedEntry
    /\ UNCHANGED <<isEditing, entries, edData, kbSelected, edSaving, edCompleting, ltasks,
                   lstore, onCompleteCalls>>
    /\ EditorRender
    /\ LayoutOnly

\* the timeout of useAutoSave fires: await saveFunction() with the data
\* object as saveFunction throws a TypeError, which the callback catches;
\* setIsSaving(true) and setIsSaving(false) leave isSaving as it was
EditorAutoSaveFires ==
    /\ edTimer
    /\ edTimer' = FALSE
    /\ IF EditorAutoSaveArgs(edData).saveFunction = "function"
       THEN /\ Len(ltasks) < MaxSaves
            /\ ltasks' = Append(ltasks, SaveRequest(selectedEntry, edData, "auto"))
       ELSE UNCHANGED ltasks
    /\ UNCHANGED <<selectedEntry, isEditing, entries, edData, kbSelected, edSaving,
                   edCompleting, lstore, onCompleteCalls>>
    /\ LayoutOnly

\* the caller of request n has got its result: the record keeps the call, the
\* id, the returned id and the outcome
Settle(n, outcome) ==
    [ltasks EXCEPT ![n].stage = outcome, ![n].data = EmptyData, ![n].by = "settled"]

\* onComplete() as the closure with selectedEntry = sel runs it, after a save
\* that ended as outcome: Layout.handleCompleteEntry up to its await
OnComplete(sel, outcome, log) ==
    /\ onCompleteCalls' = Append(onCompleteCalls, [save |-> outcome, id |-> sel])
    /\ IF sel = NoSelection
       THEN /\ ltasks' = log
            /\ edCompleting' = FALSE
       ELSE /\ ltasks' = Append(log, LTask("complete", sel, EmptyData, "complete"))
            /\ edCompleting' = TRUE

\* JournalEditor.handleComplete up to its first await that waits for a request
CompleteWith(sel) ==
    /\ isEditing
    /\ Len(ltasks) < MaxSaves
    /\ Len(onCompleteCalls) < MaxSaves
    /\ IF (edData.title # "" \/ edData.content # "") /\ ~SaveDataReturnsEarly(edData)
       THEN /\ edSaving' = TRUE
            /\ edCompleting' = TRUE
            /\ ltasks' = Append(ltasks, SaveRequest(sel, edData, "complete"))
            /\ UNCHANGED onCompleteCalls
       ELSE /\ UNCHANGED edSaving
            /\ OnComplete(sel, "not needed", ltasks)
    /\ UNCHANGED <<selectedEntry, isEditing, entries, edData, kbSelected, lstore>>
    /\ EditorRender
    /\ LayoutOnly

\* the Complete button (disabled while completing or with a blank title or content)
CompleteClick ==
    /\ ~edCompleting
    /\ TrimStr(edData.title) # ""
    /\ TrimStr(edData.content) # ""
    /\ CompleteWith(selectedEntry)

\* Ctrl/Cmd+Enter: the listener of the last change of title or content
CompleteKey == CompleteWith(kbSelected)

\* createEntry / updateEntry resolve: setEntries, setSelectedEntry(entry), the
\* rest of saveData, and for handleComplete the call of onComplete
LSaveResolve(n) ==
    /\ n \in 1..Len(ltasks)
    /\ ltasks[n].op \in {"create", "update"}
    /\ ltasks[n].stage = "ok"
    /\ selectedEntry' = ltasks[n].payload
    /\ entries' = IF ltasks[n].op = "create" THEN <<ltasks[n].payload>> \o entries
                  ELSE entries
    /\ edSaving' = FALSE
    /\ LET log == Settle(n, "done")
       IN  IF ltasks[n].by = "complete"
           THEN OnComplete(ltasks[n].id, "ok", log)
           ELSE /\ ltasks' = log
                /\ UNCHANGED <<edCompleting, onCompleteCalls>>
    /\ UNCHANGED <<isEditing, edData, kbSelected, lstore>>
    /\ EditorRender
    /\ LayoutOnly

\* createEntry / updateEntry reject: handleSaveEntry rethrows, saveData
\* catches and returns, and handleComplete goes on to onComplete
LSaveReject(n) ==
    /\ n \in 1..Len(ltasks)
    /\ ltasks[n].op \in {"create", "update"}
    /\ ltasks[n].stage = "fail"
    /\ edSaving' = FALSE
    /\ LET log == Settle(n, "failed")
       IN  IF ltasks[n].by = "complete"
           THEN OnComplete(ltasks[n].id, "rejected", log)
           ELSE /\ ltasks' = log
                /\ UNCHANGED <<edCompleting, onCompleteCalls>>
    /\ UNCHANGED <<selectedEntry, isEditing, entries, edData, kbSelected, lstore>>
    /\ EditorRender
    /\ LayoutOnly

\* completeEntry resolves: setIsEditing(false) unmounts the editor
LCompleteResolve(n) ==
    /\ n \in 1..Len(ltasks)
    /\ ltasks[n].op = "complete"
    /\ ltasks[n].stage = "ok"
    /\ isEditing' = FALSE
    /\ edCompleting' = FALSE
    /\ ltasks' = Settle(n, "done")
    /\ UNCHANGED <<selectedEntry, entries, edData, kbSelected, edSaving, lstore,
                   onCompleteCalls>>
    /\ EditorRender
    /\ LayoutOnly

\* completeEntry rejects: handleCompleteEntry rethrows, handleComplete catches
LCompleteReject(n) ==
    /\ n \in 1..Len(ltasks)
    /\ ltasks[n].op = "complete"
    /\ ltasks[n].stage = "fail"
    /\ edCompleting' = FALSE
    /\ ltasks' = Settle(n, "failed")
    /\ UNCHANGED <<selectedEntry, isEditing, entries, edData, kbSelected, edSaving, lstore,
                   onCompleteCalls>>
    /\ EditorRender
    /\ LayoutOnly

\* ---- journal backend for Layout ----
Known(id) == id \in 1..Len(lstore)

LServerHandle(n) ==
    /\ n \in 1..Len(ltasks)
    /\ ltasks[n].stage = "sent"
    /\ LET t == ltasks[n]
           newId == Len(lstore) + 1
       IN  CASE t.op = "create" ->
                  /\ lstore' = Append(lstore, [status |-> "draft", data |-> t.data])
                  /\ ltasks' = [ltasks EXCEPT ![n].stage = "ok",
                                              ![n].payload = newId]
             [] t.op = "update" /\ Known(t.id) ->
                  /\ lstore' = [lstore EXCEPT ![t.id].data = t.data]
                  /\ ltasks' = [ltasks EXCEPT ![n].stage = "ok",
                                              ![n].payload = t.id]
             [] t.op = "complete" /\ Known(t.id) ->
                  /\ lstore' = [lstore EXCEPT ![t.id].status = "complete"]
                  /\ ltasks' = [ltasks EXCEPT ![n].stage = "ok"]
             [] OTHER ->
                  /\ lstore' = lstore
                  /\ ltasks' = [ltasks EXCEPT ![n].stage = "fail"]
    /\ UNCHANGED <<selectedEntry, isEditing, entries, edData, kbSelected, edSaving,
                   edCompleting, edTimer, onCompleteCalls>>
    /\ LayoutOnly

LRequestFails(n) ==
    /\ n \in 1..Len(ltasks)
    /\ ltasks[n].stage = "sent"
    /\ ltasks' = [ltasks EXCEPT ![n].stage = "fail"]
    /\ UNCHANGED <<selectedEntry, isEditing, entries, edData, kbSelected, edSaving,
                   edCompleting, edTimer, lstore, onCompleteCalls>>
    /\ LayoutOnly

\* Layout.handleNewEntry: the editor mounts for a new entry
handleNewEntry ==
    /\ ~isEditing
    /\ ltasks = <<>>
    /\ selectedEntry' = NoSelection
    /\ isEditing' = TRUE
    /\ edData' = EmptyData
    /\ kbSelected' = NoSelection
    /\ UNCHANGED <<entries, edSaving, edCompleting, ltasks, lstore, onCompleteCalls>>
    /\ EditorRender
    /\ LayoutOnly

\* Layout after its mount, with an empty list of entries loaded
LayoutInit ==
    /\ selectedEntry = NoSelection
    /\ isEditing = FALSE
    /\ entries = <<>>
    /\ edData = EmptyData
    /\ kbSelected = NoSelection
    /\ edSaving = FALSE
    /\ edCompleting = FALSE
    /\ edTimer = FALSE
    /\ ltasks = <<>>
    /\ lstore = <<>>
    /\ onCompleteCalls = <<>>

LayoutNext ==
    \/ handleNewEntry
    \/ \E d \in EditorData : EditorChange(d)
    \/ handleSuggestionRequest
    \/ SaveClick
    \/ SaveKey
    \/ CompleteClick
    \/ CompleteKey
    \/ EditorAutoSaveFires
    \/ \E n \in 1..(2 * MaxSaves) : LSaveResolve(n)
    \/ \E n \in 1..(2 * MaxSaves) : LSaveReject(n)
    \/ \E n \in 1..(2 * MaxSaves) : LCompleteResolve(n)
    \/ \E n \in 1..(2 * MaxSaves) : LCompleteReject(n)
    \/ \E n \in 1..(2 * MaxSaves) : LServerHandle(n)
    \/ \E n \in 1..(2 * MaxSaves) : LRequestFails(n)

\* ------------------------------------------------------------------------
\* useEntries (hooks/useApi) from the mount of its component: the initial
\* fetchEntries() and the createEntry calls made meanwhile and afterwards
\* ------------------------------------------------------------------------

\* entries = null, the value of useState(null)
NullEntries == [isNull |-> TRUE, items |-> <<>>]

\* entries = an array of entries, given by their ids
Loaded(list) == [isNull |-> FALSE, items |-> list]

\* the updater createEntry gives to setEntries: prev => [response.entry, ...prev];
\* spreading null throws a TypeError and no value is returned
PrependEntry(prev, id) ==
    [threw |-> prev.isNull,
     value |-> IF prev.isNull THEN prev ELSE Loaded(<<id>> \o prev.items)]

\* journal backend: GET /entries answers with the list
HookServerFetch ==
    /\ page = "useEntries"
    /\ hookFetch.stage = "sent"
    /\ hookFetch' = [stage |-> "ok", payload |-> hookStore]
    /\ UNCHANGED <<hookEntries, hookLoading, hookError, hookCreates, hookStore, hookRaised>>
    /\ HookOnly

HookFetchFails ==
    /\ page = "useEntries"
    /\ hookFetch.stage = "sent"
    /\ hookFetch' = [hookFetch EXCEPT !.stage = "fail"]
    /\ UNCHANGED <<hookEntries, hookLoading, hookError, hookCreates, hookStore, hookRaised>>
    /\ HookOnly

\* fetchEntries after its await: setEntries(response.entries), setLoading(false)
fetchEntriesResolve ==
    /\ page = "useEntries"
    /\ ~hookRaised
    /\ hookFetch.stage = "ok"
    /\ hookEntries' = Loaded(hookFetch.payload)
    /\ hookLoading' = FALSE
    /\ hookFetch' = [hookFetch EXCEPT !.stage = "done"]
    /\ UNCHANGED <<hookError, hookCreates, hookStore, hookRaised>>
    /\ HookOnly

\* fetchEntries' catch: setError; entries keeps its value
fetchEntriesReject ==
    /\ page = "useEntries"
    /\ ~hookRaised
    /\ hookFetch.stage = "fail"
    /\ hookError' = "error"
    /\ hookLoading' = FALSE
    /\ hookFetch' = [hookFetch EXCEPT !.stage = "failed"]
    /\ UNCHANGED <<hookEntries, hookCreates, hookStore, hookRaised>>
    /\ HookOnly

\* createEntry up to its await
createEntry ==
    /\ page = "useEntries"
    /\ ~hookRaised
    /\ Len(hookCreates) < MaxCreates
    /\ hookLoading' = TRUE
    /\ hookError' = Null
    /\ hookCreates' = Append(hookCreates, [stage |-> "sent", payload |-> 0])
    /\ UNCHANGED <<hookEntries, hookFetch, hookStore, hookRaised>>
    /\ HookOnly

\* journal backend: POST /entries stores the entry and answers with it
HookServerCreate(n) ==
    /\ page = "useEntries"
    /\ n \in 1..Len(hookCreates)
    /\ hookCreates[n].stage = "sent"
    /\ hookStore' = <<Len(hookStore) + 1>> \o hookStore
    /\ hookCreates' = [hookCreates EXCEPT ![n] = [stage |-> "ok",
                                                 payload |-> Len(hookStore) + 1]]
    /\ UNCHANGED <<hookEntries, hookLoading, hookError, hookFetch, hookRaised>>
    /\ HookOnly

HookCreateFails(n) ==
    /\ page = "useEntries"
    /\ n \in 1..Len(hookCreates)
    /\ hookCreates[n].stage = "sent"
    /\ hookCreates' = [hookCreates EXCEPT ![n].stage = "fail"]
    /\ UNCHANGED <<hookEntries, hookLoading, hookError, hookFetch, hookStore, hookRaised>>
    /\ HookOnly

\* createEntry after its await: setEntries(prev => [response.entry, ...prev]),
\* return response.entry, finally setLoading(false). React runs the updater
\* when it renders the component: a throw there is a throw of the render
createEntryResolve(n) ==
    /\ page = "useEntries"
    /\ ~hookRaised
    /\ n \in 1..Len(hookCreates)
    /\ hookCreates[n].stage = "ok"
    /\ LET next == PrependEntry(hookEntries, hookCreates[n].payload)
       IN  IF next.threw
           THEN /\ hookRaised' = TRUE
                /\ UNCHANGED hookEntries
           ELSE /\ hookEntries' = next.value
                /\ UNCHANGED hookRaised
    /\ hookLoading' = FALSE
    /\ hookCreates' = [hookCreates EXCEPT ![n].stage = "done"]
    /\ UNCHANGED <<hookError, hookFetch, hookStore>>
    /\ HookOnly

\* createEntry's catch: setError, throw err (a rejection the caller handles)
createEntryReject(n) ==
    /\ page = "useEntries"
    /\ ~hookRaised
    /\ n \in 1..Len(hookCreates)
    /\ hookCreates[n].stage = "fail"
    /\ hookError' = "error"
    /\ hookLoading' = FALSE
    /\ hookCreates' = [hookCreates EXCEPT ![n].stage = "failed"]
    /\ UNCHANGED <<hookEntries, hookFetch, hookStore, hookRaised>>
    /\ HookOnly

\* entries the backend holds when the component mounts
HookStores == {<<>>, <<1>>, <<2, 1>>}

\* after the mount: entries is null and the effect has called fetchEntries()
HookInit ==
    /\ hookEntries = NullEntries
    /\ hookLoading = TRUE
    /\ hookError = Null
    /\ hookFetch = [stage |-> "sent", payload |-> <<>>]
    /\ hookCreates = <<>>
    /\ hookStore \in IF page = "useEntries" THEN HookStores ELSE {<<>>}
    /\ hookRaised = FALSE

HookNext ==
    \/ HookServerFetch
    \/ HookFetchFails
    \/ fetchEntriesResolve
    \/ fetchEntriesReject
    \/ createEntry
    \/ \E n \in 1..MaxCreates : HookServerCreate(n)
    \/ \E n \in 1..MaxCreates : HookCreateFails(n)
    \/ \E n \in 1..MaxCreates : createEntryResolve(n)
    \/ \E n \in 1..MaxCreates : createEntryReject(n)

\* ------------------------------------------------------------------------
\* Claims about useChat
\* ------------------------------------------------------------------------

IsPrefix(a, b) == Len(a) <= Len(b) /\ SubSeq(b, 1, Len(a)) = a

UserCalls == [i \in {j \in 1..Len(messages) : messages[j].role = "user"} |-> messages[i].call]

\* C1: the list is a sequence of user/assistant pairs in call order: every
\* assistant message directly follows the user message it answers, and the
\* user messages appear in the order of their calls.
C1_PairsInCallOrder ==
    /\ \A i \in 1..Len(messages) :
          messages[i].role = "assistant" =>
             /\ i > 1
             /\ messages[i - 1].role = "user"
             /\ messages[i - 1].call = messages[i].call
    /\ \A i, j \in DOMAIN UserCalls : i < j => UserCalls[i] < UserCalls[j]

\* C2: every message in the list belongs to the hook's current sessionId.
C2_MessagesOfCurrentSession ==
    \A i \in 1..Len(messages) : messages[i].session = sessionId

\* C3: a message once in the list is never removed, replaced or moved by
\* sendMessage or by a history load; only clearChat empties the list.
C3_AppendOnlyExceptClear ==
    [][clearChat \/ IsPrefix(messages, messages')]_vars

\* C4: once completeEntry was sent for an entry and succeeded, no updateEntry
\* for that entry is sent at or after the moment completeEntry was sent.
C4_NoUpdateAfterComplete ==
    \A c, u \in 1..Len(jtasks) :
        ( /\ jtasks[c].op = "complete"
          /\ jtasks[c].stage = "done"
          /\ jtasks[u].op = "update"
          /\ jtasks[u].id = jtasks[c].id ) => u < c

\* C15: every updateEntry request for entry X carries text that was loaded
\* from X or edited while X was the entry shown.
C15_SaveWritesOwnEntry ==
    \A n \in 1..Len(jtasks) :
        jtasks[n].op = "update" => jtasks[n].origin = jtasks[n].id

Unresolved(t) == t.stage \in {"sent", "ok", "fail"}

\* C18: at most one updateEntry request of the autosave is unresolved at any
\* time.
C18_OneSaveInFlight ==
    Cardinality({n \in 1..Len(jtasks) : jtasks[n].op = "update" /\ Unresolved(jtasks[n])}) <= 1

\* C17: without further edits only finitely many updateEntry requests are
\* sent: either edits go on forever or the autosave stops sending.
C17_AutoSaveQuiesces ==
    \/ []<><<\E d \in Docs : Edit(d)>>_vars
    \/ <>[][~(AutoSaveSend \/ AutoSaveSendAgain)]_vars

\* ------------------------------------------------------------------------
\* Claims about failures and timeouts
\* ------------------------------------------------------------------------
ChatFailStep(n) == LoadReject(n) \/ SendReject(n)

\* a successful response without results: an empty history, a reply
ChatEmptySuccessStep(n) == (LoadResolve(n) /\ tasks[n].payload = <<>>) \/ SendResolve(n)

ReflectEmptySuccessStep == ReflectResolve /\ fetchReq.data.notes = <<>>

\* the rejection of request m was handled after request n had been started
FailedSince(m, n) == m # n /\ tasks[m].stage = "failed" /\ tasks[m].failedAt >= n

C6_ReflectionTerminates == rLoading ~> ~rLoading

\* ------------------------------------------------------------------------
\* Claims about the api client
\* ------------------------------------------------------------------------

\* C7: api.ai.reviewEntry sends POST /ai/review-entry with a timeout of
\* 60000 ms, whatever the client's default timeout is.
C7_ReviewEntryTimeout ==
    \A n \in 1..Len(apiReqs) :
        apiReqs[n].name = "reviewEntry" =>
            /\ apiReqs[n].method = "POST"
            /\ apiReqs[n].url = "/ai/review-entry"
            /\ apiReqs[n].timeout = 60000

EffectiveLimit(r) == IF r.args.limit = Undefined THEN 10 ELSE r.args.limit

EffectiveThreshold(r) ==
    IF r.args.similarity_threshold = Undefined THEN 70 ELSE r.args.similarity_threshold

\* C10: searchSimilar(q, k, t) posts k as limit and t as similarity_threshold
\* (10 and 0.7 when not given); the answer has at most k results, in
\* non-increasing similarity, equal similarities by descending created_at.
C10_SearchContract ==
    \A n \in 1..Len(apiReqs) :
        apiReqs[n].name = "searchSimilar" =>
            /\ apiReqs[n].body.query = apiReqs[n].args.query
            /\ apiReqs[n].body.limit = EffectiveLimit(apiReqs[n])
            /\ apiReqs[n].body.similarity_threshold = EffectiveThreshold(apiReqs[n])
            /\ apiReqs[n].stage \in {"ok", "done"} =>
                 LET res == apiReqs[n].data
                 IN  /\ Len(res) <= EffectiveLimit(apiReqs[n])
                     /\ \A i \in 1..(Len(res) - 1) :
                           \/ res[i].sim > res[i + 1].sim
                           \/ /\ res[i].sim = res[i + 1].sim
                              /\ res[i].created_at >= res[i + 1].created_at

\* a search with k = 1 over a store with two facts of the best similarity
\* returned the more recent of the two
C10_Witness ==
    \E n \in 1..Len(apiReqs) :
        /\ apiReqs[n].name = "searchSimilar"
        /\ apiReqs[n].stage = "done"
        /\ apiReqs[n].args.limit = 1
        /\ Len(apiReqs[n].data) = 1
        /\ \E f \in facts :
              /\ f.sim = apiReqs[n].data[1].sim
              /\ f.created_at < apiReqs[n].data[1].created_at

\* ------------------------------------------------------------------------
\* Claims about the retry policy and the rate limiter
\* ------------------------------------------------------------------------
IsClientError(st) == st >= 400 /\ st < 500

\* C8: retry(failureCount, error) is false for 400 <= error.status < 500 and
\* otherwise true exactly when failureCount < 3; a query is never retried
\* after a 4xx error and never makes more than 4 attempts, and an error that
\* is not a 4xx surfaces only after the fourth attempt.
C8_RetryPolicy ==
    /\ \A fc \in 0..5, st \in ErrorStatuses :
          retry(fc, st) = (IF IsClientError(st) THEN FALSE ELSE fc < 3)
    /\ \A k \in QueryKeys :
          /\ queries[k].attempts <= 4
          /\ ~queries[k].retriedClientError
          /\ queries[k].status = "error" =>
                \/ IsClientError(queries[k].lastError)
                \/ queries[k].attempts = 4

\* one query gave up after four attempts that failed with a server error,
\* the other one failed fast on its first 4xx
C8_Witness ==
    /\ queries["entries"].status = "error"
    /\ queries["entries"].attempts = 4
    /\ queries["entries"].lastError = 503
    /\ queries["entry"].status = "error"
    /\ queries["entry"].attempts = 1
    /\ queries["entry"].lastError = 404

AcceptedTimes == SelectSeq(limLog, LAMBDA e : e.ok)

IsSuffix(s, t) ==
    /\ Len(s) <= Len(t)
    /\ \A i \in 1..Len(s) : s[i] = t[Len(t) - Len(s) + i].t

\* C9: in any half-open interval of length windowMs at most maxCalls
\* invocations of canMakeCall() returned true (an interval that holds an
\* accepted invocation holds no more of them than the interval that starts at
\* its first one), and this.calls holds times of accepted invocations only.
C9_WindowBound ==
    /\ \A i \in 1..Len(limLog) :
          Cardinality({j \in 1..Len(limLog) :
                          /\ limLog[j].ok
                          /\ limLog[i].t <= limLog[j].t
                          /\ limLog[j].t < limLog[i].t + limiter.windowMs})
              <= limiter.maxCalls
    /\ IsSuffix(limCalls, AcceptedTimes)

\* the reflection limiter accepted ten invocations, refused the eleventh and
\* accepted one again after the window had passed
C9_Witness ==
    /\ limiter.maxCalls = 10
    /\ \E i, j \in 1..Len(limLog) :
          /\ i < j
          /\ ~limLog[i].ok
          /\ limLog[j].ok
          /\ Cardinality({h \in 1..i : limLog[h].ok}) = 10

\* ------------------------------------------------------------------------
\* Claims about the sentence lists
\* ------------------------------------------------------------------------
RECURSIVE Concat(_)
Concat(list) == IF Len(list) = 0 THEN <<>> ELSE Head(list) \o Concat(Tail(list))

NoWhitespace(str) == SelectSeq(str, LAMBDA c : ~IsSpace(c))

\* C11: the fragments of a non-empty prompt, concatenated and with whitespace
\* deleted, are the prompt with whitespace deleted.
C11_FragmentsKeepCharacters ==
    Len(suggestion) > 0 =>
        NoWhitespace(Concat(processedSuggestion)) = NoWhitespace(suggestion)

\* a prompt that starts with a separator gave two fragments
C11_Witness ==
    /\ Len(suggestion) > 0
    /\ IsTerminator(suggestion[1])
    /\ Len(processedSuggestion) = 2

\* the number of sentences of a text made of sentences (a body that starts
\* with a character that is neither whitespace nor terminator and holds no
\* terminator, then terminators), separated by whitespace; 0 for other texts
RECURSIVE SentenceCount(_, _, _, _)
SentenceCount(str, i, mode, n) ==
    IF i > Len(str) THEN (IF mode \in {"terminators", "gap"} THEN n ELSE 0)
    ELSE LET c == str[i]
         IN  CASE mode \in {"start", "gap"} ->
                    IF IsSpace(c) /\ mode = "gap" THEN SentenceCount(str, i + 1, "gap", n)
                    ELSE IF IsSpace(c) \/ IsTerminator(c) THEN 0
                    ELSE SentenceCount(str, i + 1, "body", n)
               [] mode = "body" ->
                    IF IsTerminator(c) THEN SentenceCount(str, i + 1, "terminators", n + 1)
                    ELSE SentenceCount(str, i + 1, "body", n)
               [] mode = "terminators" ->
                    IF IsTerminator(c) THEN SentenceCount(str, i + 1, "terminators", n)
                    ELSE IF IsSpace(c) THEN SentenceCount(str, i + 1, "gap", n)
                    ELSE 0

\* C12: a text of n >= 1 sentences gives n fragments, in the order of the
\* text, each non-blank and ending with its terminators.
C12_OneFragmentPerSentence ==
    LET n == SentenceCount(suggestion, 1, "start", 0)
    IN  n >= 1 =>
          /\ Len(processedSuggestion) = n
          /\ \A i \in 1..n :
                /\ ~Blank(processedSuggestion[i])
                /\ IsTerminator(processedSuggestion[i][Len(processedSuggestion[i])])
                /\ SentenceCount(processedSuggestion[i], 1, "start", 0) = 1
          /\ NoWhitespace(Concat(processedSuggestion)) = NoWhitespace(suggestion)

\* a text of three sentences with trailing whitespace gave three fragments
C12_Witness ==
    /\ SentenceCount(suggestion, 1, "start", 0) = 3
    /\ IsSpace(suggestion[Len(suggestion)])
    /\ Len(processedSuggestion) = 3

IsDigit(c) == c \in {"1", "3", "4"}

\* occurrences of digit . digit in a text
Decimals(str) ==
    Cardinality({i \in 1..(Len(str) - 2) :
                    IsDigit(str[i]) /\ str[i + 1] = "." /\ IsDigit(str[i + 2])})

RECURSIVE DecimalsIn(_)
DecimalsIn(list) ==
    IF Len(list) = 0 THEN 0 ELSE Decimals(Head(list)) + DecimalsIn(Tail(list))

Abbreviation == <<"D", "r", ".">>

EndsWith(str, suffix) ==
    /\ Len(str) >= Len(suffix)
    /\ SubSeq(str, Len(str) - Len(suffix) + 1, Len(str)) = suffix

\* no fragment of the list ends inside a decimal number of the text, and a
\* fragment ends with the abbreviation only where the text ends with it
KeepsTokens(text, list) ==
    /\ DecimalsIn(list) = Decimals(text)
    /\ \A i \in 1..Len(list) : EndsWith(list[i], Abbreviation) => EndsWith(Trim(text), Abbreviation)

\* C13: neither sentence list ends a fragment inside a decimal number or
\* directly after an abbreviation.
C13_NoSplitInsideTokens ==
    /\ KeepsTokens(suggestion, processedSuggestion)
    /\ KeepsTokens(reflText, reflItems)

\* ------------------------------------------------------------------------
\* Claims about validateJournalEntry
\* ------------------------------------------------------------------------

\* C14: isValid is true exactly when title and content are non-blank, the
\* title has fewer than 200 characters and the content fewer than 50,000;
\* isValid is true if and only if errors is empty.
C14_ValidExactlyWithinLimits ==
    vResult # NotValidated =>
        /\ vResult.isValid <=>
              /\ ~Blank(vEntry.title)
              /\ Len(vEntry.title) < 200
              /\ ~Blank(vEntry.content)
              /\ Len(vEntry.content) < 50000
        /\ vResult.isValid <=> (vResult.errors = <<>>)

\* ------------------------------------------------------------------------
\* Claims about Layout and JournalEditor
\* ------------------------------------------------------------------------

\* C16: while one new entry is edited, at most one createEntry call is made
\* and every updateEntry call has the id of an entry the server returned.
C16_OneCreateKnownUpdates ==
    /\ Cardinality({n \in 1..Len(ltasks) : ltasks[n].op = "create"}) <= 1
    /\ \A n \in 1..Len(ltasks) :
          ltasks[n].op = "update" =>
              \E m \in 1..(n - 1) :
                  /\ ltasks[m].op = "create"
                  /\ ltasks[m].stage \in {"ok", "done"}
                  /\ ltasks[m].payload = ltasks[n].id

\* C19: when the autosave timeout of JournalEditor fires, onSave is called
\* with the current title and content.
C19_AutoSaveCallsOnSave ==
    [][EditorAutoSaveFires =>
          /\ Len(ltasks') = Len(ltasks) + 1
          /\ ltasks'[Len(ltasks')].data = edData
          /\ ltasks'[Len(ltasks')].op \in {"create", "update"}]_vars

\* C20: onComplete is never called after a save that was rejected.
C20_CompleteOnlyAfterSave ==
    \A i \in 1..Len(onCompleteCalls) : onCompleteCalls[i].save # "rejected"

\* ------------------------------------------------------------------------
\* Claims about useEntries
\* ------------------------------------------------------------------------

\* C21: when a createEntry call succeeds, the new entry becomes the first
\* element of entries, followed by the earlier entries in their order (none
\* while entries still has its initial value), and no exception is raised.
C21_CreatePrependsEntry ==
    [][\A n \in 1..MaxCreates :
          createEntryResolve(n) =>
              /\ ~hookRaised'
              /\ ~hookEntries'.isNull
              /\ hookEntries'.items = <<hookCreates[n].payload>> \o hookEntries.items]_vars

\* ------------------------------------------------------------------------
\* Specifications
\* ------------------------------------------------------------------------
Init ==
    /\ page \in Pages
    /\ ChatInit
    /\ JournalInit
    /\ ReflectInit
    /\ ApiInit
    /\ QueryInit
    /\ LimiterInit
    /\ SplitInit
    /\ ValidateInit
    /\ LayoutInit
    /\ HookInit

\* the components that are not mounted stay as constructed
ReflectIdle == reflCalls = <<>>

ApiIdle == envTimeout = Undefined /\ facts = {}

LimiterIdle == limiter.maxCalls = ReflectionMaxCalls

InitChat == Init /\ page = "ChatInterface" /\ ReflectIdle /\ ApiIdle /\ LimiterIdle

InitJournal == Init /\ page = "JournalPage" /\ ReflectIdle /\ ApiIdle /\ LimiterIdle

InitReflect == Init /\ page = "ChatPage" /\ ApiIdle /\ LimiterIdle

InitErrors == Init /\ page \in {"ChatInterface", "ChatPage"} /\ ApiIdle /\ LimiterIdle

InitApi == Init /\ page = "ReviewSidebar" /\ ReflectIdle /\ LimiterIdle

SpecApi == InitApi /\ [][ApiNext]_vars

InitSplit == Init /\ page \in {"RightSidebar", "ReflectionList"} /\ ReflectIdle /\ ApiIdle /\ LimiterIdle

SpecSplit == InitSplit /\ [][SplitNext]_vars

InitValidate == Init /\ page = "validateJournalEntry" /\ ReflectIdle /\ ApiIdle /\ LimiterIdle

SpecValidate == InitValidate /\ [][ValidateNext]_vars

InitLayout == Init /\ page = "Layout" /\ ReflectIdle /\ ApiIdle /\ LimiterIdle

SpecLayout == InitLayout /\ [][LayoutNext]_vars

InitHook == Init /\ page = "useEntries" /\ ReflectIdle /\ ApiIdle /\ LimiterIdle

SpecHook == InitHook /\ [][HookNext]_vars

InitQuery == Init /\ page = "QueryClient" /\ ReflectIdle /\ ApiIdle /\ LimiterIdle

SpecQuery == InitQuery /\ [][QueryNext]_vars

InitLimiter == Init /\ page = "RateLimiter" /\ ReflectIdle /\ ApiIdle

SpecLimiter == InitLimiter /\ [][LimiterNext]_vars

SpecChat == InitChat /\ [][ChatNext]_vars

SpecJournal == InitJournal /\ [][JournalNext]_vars

\* timeouts fire, the server answers and continuations run
AutoSaveFairness ==
    /\ WF_vars(AutoSaveSkip)
    /\ WF_vars(AutoSaveSend)
    /\ WF_vars(AutoSaveSendAgain)
    /\ WF_vars(\E n \in 1..MaxReq : JServerHandle(n))
    /\ WF_vars(\E n \in 1..MaxReq : GetResolve(n))
    /\ WF_vars(\E n \in 1..MaxReq : UpdateResolve(n))
    /\ WF_vars(\E n \in 1..MaxReq : UpdateReject(n))

SpecAutoSaveFair == InitJournal /\ [][AutoSaveNext]_vars /\ AutoSaveFairness

SpecReflect == InitReflect /\ [][ReflectNext]_vars

\* handlers of settled promises run; nothing makes the server answer
ReflectFairness ==
    /\ WF_vars(ReflectResolve)
    /\ WF_vars(ReflectReject)

SpecReflectFair == InitReflect /\ [][ReflectNext]_vars /\ ReflectFairness

\* useChat in ChatInterface, or ChatPage
SpecErrors == InitErrors /\ [][ChatNext \/ ReflectNext]_vars

====
